---- MODULE Spec2Model ----
(***************************************************************************)
(* Session and subscription engine of the MCP OAuth server:                *)
(*   - the authorization gate (TokenValidator, createAuthMiddleware),      *)
(*   - the /mcp router of HttpTransport with its session registry,         *)
(*   - the per-session OAuthMcpServer with the module-level                *)
(*     subscriptionCallbacks and subscriptions maps,                       *)
(*   - the SIGINT/SIGTERM handler and HttpTransport.stop.                  *)
(* The MCP SDK objects (StreamableHTTPServerTransport, McpServer) are the  *)
(* environment of the repository's code; their documented behaviour is     *)
(* folded into the handler that calls them.                                *)
(***************************************************************************)
EXTENDS Integers, FiniteSets, Sequences, TLC

\* ---------------------------------------------------------------- bounds
MaxInst == 2        \* transports / server instances constructed in a run
MaxTimers == 2      \* setInterval handles alive at the same time
MaxNow == 1         \* largest clock reading, in seconds
MaxLate == 2        \* saturation of the per-timer count of late ticks
GateMaxInst == 1    \* instances constructed in the gate specification
MaxConn == 2        \* SSE connections made to /notifications in a run
MaxTicks == 2       \* notifications broadcast in a run
MaxCalls == 2       \* callServerMethod calls whose handler stays in flight, in a run

\* ------------------------------------------------------ program constants
StreamUri == "stream://market/AAPL"
AccountUri == "account://info/ACC001"
Uris == {StreamUri, AccountUri}

Insts == 1..MaxInst
Sids == 1..MaxInst          \* values randomUUID() hands out, in order
NoSid == -1                 \* request without an mcp-session-id header
EmptySid == 0               \* header present but empty (falsy in JS)
ForeignSid == 99            \* an id this process never generated
ReqSids == {NoSid, EmptySid, ForeignSid} \cup Sids

VARIABLES
    enableAuth,             \* config.enableAuth
    now,                    \* Math.floor(Date.now() / 1000)
    oauthIssuer,            \* config.oauthIssuer
    pc,                     \* process: running / closing / draining / exited
    nextInst,               \* number of transports+servers constructed
    tSid,                   \* transport.sessionId (0 = undefined)
    tStream,                \* transport has its standalone SSE stream open
    tClosed,                \* transport.close() has run
    nextUuid,               \* number of ids generated by sessionIdGenerator
    sessions,               \* HttpTransport.sessions: sid -> instance (0 = no entry)
    subscriptionCallbacks,  \* server.ts map: uri -> server captured by the callbacks
    subscriptions,          \* resources.ts map: uri -> interval handle (0 = no entry)
    timers,                 \* live setInterval handles
    lastNote,               \* history: the notification written to a stream last
    req,                    \* the HTTP exchange handled last: request
    resp,                   \* ... and its response
    sseConnections,         \* earlier HttpTransport: ids in the sseConnections map
    sseRes,                 \* history: per connection, the notifications fired before it
                            \* was made, what was written to it, whether a write threw
    nextConn,               \* number of connections made to /notifications
    ticksFired,             \* number of notifications handed to broadcastNotification
    stopAt,                 \* stop(): the session id its loop visited last (0: none)
    closeFailed,            \* history: the instances whose close() raised in stop()
    calls,                  \* earlier HttpTransport: the callServerMethod calls in flight
    serverTransport         \* ... and the transport the one server is connected to

vars == <<enableAuth, now, oauthIssuer, pc, nextInst, tSid, tStream, tClosed,
          nextUuid, sessions, subscriptionCallbacks, subscriptions, timers,
          lastNote, req, resp, sseConnections, sseRes, nextConn, ticksFired,
          calls, serverTransport, stopAt, closeFailed>>

\* state of the earlier, single-server HttpTransport
legacy == <<sseConnections, sseRes, nextConn, ticksFired, calls, serverTransport>>

engine == <<nextInst, tSid, tStream, tClosed, nextUuid, sessions,
            subscriptionCallbacks, subscriptions, timers, lastNote>>

\* ------------------------------------------------------------ credentials
\* A URL is a sequence of characters; only the trailing slash matters.
IssA == <<"a">>
IssASlash == <<"a", "/">>
IssB == <<"b">>
oauthAudience == "api"
NoExp == -1                 \* payload without an exp field

StrAud(s) == [isArray |-> FALSE, items |-> <<s>>]
ArrAud(q) == [isArray |-> TRUE, items |-> q]

Jwt(i, a, e) == [kind |-> "jwt", iss |-> i, aud |-> a, exp |-> e]
GoodJwt == Jwt(IssA, StrAud(oauthAudience), MaxNow + 1)
EmptyTok == [kind |-> "empty", iss |-> <<>>, aud |-> StrAud(""), exp |-> NoExp]
GarbageTok == [kind |-> "garbage", iss |-> <<>>, aud |-> StrAud(""), exp |-> NoExp]

Hdr(s, t) == [scheme |-> s, tok |-> t]
NoHeader == Hdr("none", EmptyTok)

GoodHeader == Hdr("bearer", GoodJwt)

\* headers of the gate specification: every way a credential can be wrong
GateTokens ==
    {EmptyTok, GarbageTok}
    \cup {Jwt(IssA, StrAud(oauthAudience), e) : e \in {NoExp} \cup 0..(MaxNow + 1)}
    \cup {Jwt(i, StrAud(oauthAudience), MaxNow + 1) : i \in {IssASlash, IssB}}
    \cup {Jwt(IssA, a, MaxNow + 1) :
            a \in {StrAud("other"), ArrAud(<<"other", oauthAudience>>), ArrAud(<<"other">>)}}
GateHeaders == {NoHeader, Hdr("basic", GoodJwt)} \cup {Hdr("bearer", t) : t \in GateTokens}

\* a comparison of the issuers as they are written
normalizeUrl_Identity(url) == url

\* url.replace(/\/$/, '')
normalizeUrl(url) ==
    IF Len(url) > 0 /\ url[Len(url)] = "/" THEN SubSeq(url, 1, Len(url) - 1) ELSE url

\* Array.isArray(aud) ? aud.includes(expected) : aud === expected
isValidAudience(aud) ==
    IF aud.isArray
    THEN \E k \in 1..Len(aud.items) : aud.items[k] = oauthAudience
    ELSE Len(aud.items) = 1 /\ aud.items[1] = oauthAudience

\* decoded.exp < now; a missing exp is undefined and compares false
isExpired(exp, at) == exp # NoExp /\ exp < at

\* TRUE when validateToken returns the payload, FALSE when it throws
validateToken(tok, at) ==
    IF ~enableAuth THEN FALSE
    ELSE IF tok.kind # "jwt" THEN FALSE
    ELSE IF normalizeUrl(tok.iss) # normalizeUrl(oauthIssuer) THEN FALSE
    ELSE IF ~isValidAudience(tok.aud) THEN FALSE
    ELSE IF isExpired(tok.exp, at) THEN FALSE
    ELSE TRUE

\* an extraction that takes the token of any scheme
extractBearerToken_AnyScheme(hdr) ==
    IF hdr.scheme = "none" THEN [null |-> TRUE, tok |-> EmptyTok]
    ELSE [null |-> FALSE, tok |-> hdr.tok]

\* the token after 'Bearer ', or null
extractBearerToken(hdr) ==
    IF hdr.scheme # "bearer" THEN [null |-> TRUE, tok |-> EmptyTok]
    ELSE [null |-> FALSE, tok |-> hdr.tok]

AuthCtx(a, hasTok, tok, hasPayload) ==
    [isAuthorized |-> a, hasToken |-> hasTok, token |-> tok, hasPayload |-> hasPayload]

\* createAuthContext without the enableAuth switch
createAuthContext_NoSwitch(hdr, at) ==
    LET ex == extractBearerToken(hdr) IN
    IF ex.null \/ ex.tok.kind = "empty" THEN AuthCtx(FALSE, FALSE, EmptyTok, FALSE)
    ELSE IF validateToken(ex.tok, at) THEN AuthCtx(TRUE, TRUE, ex.tok, TRUE)
    ELSE AuthCtx(FALSE, TRUE, ex.tok, FALSE)

createAuthContext(hdr, at) ==
    IF ~enableAuth THEN AuthCtx(TRUE, FALSE, EmptyTok, FALSE)
    ELSE LET ex == extractBearerToken(hdr) IN
         IF ex.null \/ ex.tok.kind = "empty" THEN AuthCtx(FALSE, FALSE, EmptyTok, FALSE)
         ELSE IF validateToken(ex.tok, at) THEN AuthCtx(TRUE, TRUE, ex.tok, TRUE)
         ELSE AuthCtx(FALSE, TRUE, ex.tok, FALSE)

\* config.httpPort
httpPort == 6060

\* the route the protected-resource metadata document is served at
ProtectedResourceRoute == "/.well-known/oauth-protected-resource"

\* value of a WWW-Authenticate header; NoChallenge when the header is not set
NoChallenge == [scheme |-> "", origin |-> "", port |-> 0, path |-> ""]

\* Bearer resource_metadata="http://localhost:${httpPort}/.well-known/..."
generateWWWAuthenticateHeader ==
    [scheme |-> "Bearer", origin |-> "http://localhost", port |-> httpPort,
     path |-> "/.well-known/oauth-protected-resource"]

\* a middleware that answers every unauthorized request with the challenge
createAuthMiddleware_AlwaysChallenge(method, hdr, at) ==
    IF enableAuth
    THEN IF ~createAuthContext(hdr, at).isAuthorized THEN "challenge" ELSE "next"
    ELSE "next"

\* a middleware that only guards the connection-establishing GET
createAuthMiddleware_GetOnly(method, hdr, at) ==
    IF enableAuth /\ method = "GET" /\ ~createAuthContext(hdr, at).isAuthorized
    THEN "challenge"
    ELSE "next"

\* outcome of the middleware: "next", or the kind of 401 it writes
createAuthMiddleware(method, hdr, at) ==
    IF enableAuth
    THEN IF ~createAuthContext(hdr, at).isAuthorized
         THEN IF method = "GET" THEN "challenge" ELSE "rpcerror"
         ELSE "next"
    ELSE "next"

\* ------------------------------------------------------------- requests
NoBody == [kind |-> "none", uri |-> ""]
Bodies ==
    {[kind |-> "initialize", uri |-> ""], [kind |-> "other", uri |-> ""]}
    \cup {[kind |-> k, uri |-> u] : k \in {"subscribe", "unsubscribe"}, u \in Uris}

InitBody == [kind |-> "initialize", uri |-> ""]
OtherBody == [kind |-> "other", uri |-> ""]
SubBodies == Bodies \ {InitBody, OtherBody}

\* the id member of a JSON-RPC body: absent, null, or a number
NoId == [t |-> "absent", n |-> 0]
NullId == [t |-> "null", n |-> 0]
NumId(n) == [t |-> "number", n |-> n]
OneId == NumId(1)
RpcIds == {NoId, NumId(0), OneId}

\* requests to /mcp: HTTP method, mcp-session-id header, JSON-RPC body and
\* its id, whether the SDK transport accepts the HTTP envelope, Authorization
\* header
Reqs(M, S, B, I, K, H) == [method : M, sid : S, body : B, id : I, sdkOk : K, hdr : H]

\* traffic of well-behaved, authorized clients
EngineRequests ==
    Reqs({"POST"}, {NoSid}, {InitBody}, {OneId}, BOOLEAN, {GoodHeader})
    \cup Reqs({"GET"}, Sids, {NoBody}, {NoId}, {TRUE}, {GoodHeader})
    \cup Reqs({"POST"}, Sids, SubBodies, {OneId}, {TRUE}, {GoodHeader})

\* every HTTP method and every session id, with and without an initialize
\* body, from authorized clients
RouterRequests ==
    Reqs({"GET"}, ReqSids, {NoBody}, {NoId}, {TRUE}, {GoodHeader})
    \cup Reqs({"DELETE"}, {NoSid}, {NoBody}, {NoId}, {TRUE}, {GoodHeader})
    \cup Reqs({"POST"}, ReqSids, {InitBody, OtherBody}, {OneId}, {TRUE}, {GoodHeader})
    \cup Reqs({"POST"}, ReqSids, {InitBody}, {OneId}, {FALSE}, {GoodHeader})

\* every kind of credential on every method, and every kind of id on
\* requests with and without a credential
GateSids == {NoSid, ForeignSid} \cup 1..GateMaxInst
GateRequests ==
    Reqs({"GET"}, GateSids, {NoBody}, {NoId}, {TRUE}, GateHeaders)
    \cup Reqs({"DELETE"}, {NoSid}, {NoBody}, {NoId}, {TRUE}, GateHeaders)
    \cup Reqs({"POST"}, GateSids, {InitBody, OtherBody}, {OneId}, {TRUE}, GateHeaders)
    \cup Reqs({"POST"}, GateSids, {OtherBody}, RpcIds, {TRUE}, {NoHeader, GoodHeader})

NoReq == [method |-> "none", sid |-> NoSid, body |-> NoBody, id |-> NoId, sdkOk |-> TRUE,
          hdr |-> NoHeader, at |-> 0, known |-> FALSE]

\* status, JSON-RPC error code (0 = none), WWW-Authenticate header (www: set),
\* transport whose handleRequest ran (0 = none), instance constructed (0 = none),
\* session id entered in the registry (0 = none), and whether the key written
\* or deleted (session id, or uri of a subscribe or unsubscribe) had an entry;
\* id is the id member of a body the handlers of HttpTransport write (absent
\* in the bodies the SDK transport writes, which are not modelled)
Registered(st, code, www, inv, cr, sid, over) ==
    [status |-> st, code |-> code,
     www |-> IF www THEN generateWWWAuthenticateHeader ELSE NoChallenge,
     invoked |-> inv, created |-> cr,
     registered |-> sid, overwrote |-> over, id |-> NoId]
Resp(st, code, www, inv, cr) == Registered(st, code, www, inv, cr, 0, FALSE)
NoResp == Resp(0, 0, FALSE, 0, 0)

isInitializeRequest(body) == body.kind = "initialize"

\* this.sessions.has(sessionId)
Has(sid) == sid \in Sids /\ sessions[sid] # 0

\* JS truthiness of the header value
Truthy(sid) == sid # NoSid /\ sid # EmptySid

\* GET branch without the 404 answer: an unknown id falls out of the branch
Route_GetFallsThrough(method, sid, isInitRequest) ==
    IF method = "GET" /\ Truthy(sid) /\ Has(sid) THEN "attach"
    ELSE IF method = "GET" /\ ~Truthy(sid) THEN "get400"
    ELSE IF method = "POST"
    THEN IF Truthy(sid) /\ Has(sid) THEN "existing"
         ELSE IF ~Truthy(sid) /\ isInitRequest THEN "new"
         ELSE "post400"
    ELSE "405"

\* POST branch that starts a session for any initialize, whatever its id
Route_InitAnySid(method, sid, isInitRequest) ==
    IF method = "GET"
    THEN IF ~Truthy(sid) THEN "get400"
         ELSE IF ~Has(sid) THEN "get404"
         ELSE "attach"
    ELSE IF method = "POST"
    THEN IF Truthy(sid) /\ Has(sid) THEN "existing"
         ELSE IF isInitRequest THEN "new"
         ELSE "post400"
    ELSE "405"

\* POST branch that tests for an initialize before it looks the id up
Route_InitFirst(method, sid, isInitRequest) ==
    IF method = "GET"
    THEN IF ~Truthy(sid) THEN "get400"
         ELSE IF ~Has(sid) THEN "get404"
         ELSE "attach"
    ELSE IF method = "POST"
    THEN IF isInitRequest /\ (~Truthy(sid) \/ Has(sid)) THEN "new"
         ELSE IF Truthy(sid) /\ Has(sid) THEN "existing"
         ELSE "post400"
    ELSE "405"

\* the branch of the /mcp handler a request takes once the gate let it through
Route(method, sid, isInitRequest) ==
    IF method = "GET"
    THEN IF ~Truthy(sid) THEN "get400"
         ELSE IF ~Has(sid) THEN "get404"
         ELSE "attach"
    ELSE IF method = "POST"
    THEN IF Truthy(sid) /\ Has(sid) THEN "existing"
         ELSE IF ~Truthy(sid) /\ isInitRequest THEN "new"
         ELSE "post400"
    ELSE "405"

RouteOf(r) == Route(r.method, r.sid, isInitializeRequest(r.body))
Passes(r) == createAuthMiddleware(r.method, r.hdr, now) = "next"

\* ------------------------------------------------ subscription bookkeeping
clearInterval(ts, id) == {t \in ts : t.id # id}

FreeIds(ts) == {k \in 1..MaxTimers : \A t \in ts : t.id # k}
FreshId(ts) == CHOOSE k \in FreeIds(ts) : \A j \in FreeIds(ts) : k <= j

\* a live interval: the session whose subscribe request made it (owner), the
\* server its callback notifies (target); history: its owner's stream has
\* closed since (orphan), and how many of its notifications reached a stream
\* after that (late)
Timer(id, uri, owner, target) ==
    [id |-> id, uri |-> uri, owner |-> owner, target |-> target,
     orphan |-> FALSE, late |-> 0]

\* onSubscribe without its clearInterval
SubscribeCleared_NoCancel(uri) == timers

\* timers left once onSubscribe has cancelled the previous handle of the uri
SubscribeCleared(uri) ==
    IF subscriptions[uri] # 0 THEN clearInterval(timers, subscriptions[uri]) ELSE timers

\* resources.ts onSubscribe, called by the subscribe handler of server `owner`;
\* the interval closes over the server the callbacks were registered by
onSubscribe(uri, owner) ==
    LET cleared == SubscribeCleared(uri)
        id == FreshId(cleared)
    IN /\ FreeIds(cleared) # {}
       /\ timers' = cleared \cup {Timer(id, uri, owner, subscriptionCallbacks[uri])}
       /\ subscriptions' = [subscriptions EXCEPT ![uri] = id]

\* onUnsubscribe that forgets the handle and leaves the interval running
onUnsubscribe_NoCancel(uri) ==
    IF subscriptions[uri] # 0
    THEN /\ subscriptions' = [subscriptions EXCEPT ![uri] = 0]
         /\ UNCHANGED timers
    ELSE UNCHANGED <<timers, subscriptions>>

\* onUnsubscribe that cancels the interval and keeps its handle in the map
onUnsubscribe_KeepEntry(uri) ==
    IF subscriptions[uri] # 0
    THEN /\ timers' = clearInterval(timers, subscriptions[uri])
         /\ UNCHANGED subscriptions
    ELSE UNCHANGED <<timers, subscriptions>>

\* resources.ts onUnsubscribe
onUnsubscribe(uri) ==
    IF subscriptions[uri] # 0
    THEN /\ timers' = clearInterval(timers, subscriptions[uri])
         /\ subscriptions' = [subscriptions EXCEPT ![uri] = 0]
    ELSE UNCHANGED <<timers, subscriptions>>

\* a cleanup that empties the map and cancels nothing
cleanupResourceSubscriptions_ClearOnly ==
    /\ timers' = timers
    /\ subscriptions' = [u \in Uris |-> 0]

\* resources.ts cleanupResourceSubscriptions
cleanupResourceSubscriptions ==
    /\ timers' = {t \in timers : \A u \in Uris : subscriptions[u] # t.id}
    /\ subscriptions' = [u \in Uris |-> 0]

\* the tasks made through instance i lose their stream
Orphaned(ts, i) == {IF t.owner = i THEN [t EXCEPT !.orphan = TRUE] ELSE t : t \in ts}

\* ---------------------------------------------------------------- state
\* history of a response nothing has been written to
NoRes == [since |-> 0, log |-> <<>>, failed |-> FALSE]

\* server._transport before the first connect, and when it is the transport
\* of a call that has settled within its own turn
NoTransport == 0
DoneTransport == -1

\* a callServerMethod call: the request it serves, its promise (st), what
\* settled it (why), the call whose handler produced the result it resolved
\* with (got), its responseHandled flag, whether the server's handler of its
\* request is still running, whether its 10 s timer is pending; history:
\* whether a message reached its send after it had settled
Call(r, st, why, got, handled, running, timer) ==
    [r |-> r, st |-> st, why |-> why, got |-> got, responseHandled |-> handled,
     running |-> running, timer |-> timer, late |-> FALSE]

NoCall == Call(NoReq, "free", "none", 0, FALSE, FALSE, FALSE)

\* no notification written yet
NoNote == [on |-> 0, by |-> 0, uri |-> ""]

InitWith(auth) ==
    /\ enableAuth \in auth
    /\ now = 0
    /\ oauthIssuer = IssASlash
    /\ pc = "running"
    /\ nextInst = 0
    /\ tSid = [i \in Insts |-> 0]
    /\ tStream = [i \in Insts |-> FALSE]
    /\ tClosed = [i \in Insts |-> FALSE]
    /\ nextUuid = 0
    /\ sessions = [s \in Sids |-> 0]
    /\ subscriptionCallbacks = [u \in Uris |-> 0]
    /\ subscriptions = [u \in Uris |-> 0]
    /\ timers = {}
    /\ lastNote = NoNote
    /\ req = NoReq
    /\ resp = NoResp
    /\ sseConnections = {}
    /\ sseRes = [c \in 1..MaxConn |-> NoRes]
    /\ nextConn = 0
    /\ ticksFired = 0
    /\ calls = [c \in 1..MaxCalls |-> NoCall]
    /\ serverTransport = NoTransport
    /\ stopAt = 0
    /\ closeFailed = {}

\* a server with authorization enabled
Init == InitWith({TRUE})

\* a server of either configuration
InitGate == InitWith(BOOLEAN)

\* an exchange on /mcp while the process is alive
Exchange(r) ==
    /\ pc # "exited"
    /\ req' = [method |-> r.method, sid |-> r.sid, body |-> r.body, id |-> r.id,
               sdkOk |-> r.sdkOk,
               hdr |-> r.hdr, at |-> now, known |-> Has(r.sid)]
    /\ UNCHANGED <<enableAuth, stopAt, closeFailed, now, oauthIssuer, pc>>
    /\ UNCHANGED legacy

\* JS truthiness of the id member: undefined, null and 0 are falsy
TruthyId(id) == id.t = "number" /\ id.n # 0

\* (req.body as any)?.id || null
UnauthorizedId(id) == IF TruthyId(id) THEN id ELSE NullId

\* createAuthMiddleware answers 401 itself and does not call next()
Unauthorized(r) ==
    /\ ~Passes(r)
    /\ Exchange(r)
    /\ resp' = IF createAuthMiddleware(r.method, r.hdr, now) = "challenge"
               THEN Resp(401, 0, TRUE, 0, 0)
               ELSE [Resp(401, -32001, FALSE, 0, 0) EXCEPT !.id = UnauthorizedId(r.id)]
    /\ UNCHANGED engine

\* GET without a usable session id
GetRejected(r) ==
    /\ Passes(r)
    /\ RouteOf(r) \in {"get400", "get404"}
    /\ Exchange(r)
    /\ resp' = IF RouteOf(r) = "get400"
               THEN [Resp(400, -32000, FALSE, 0, 0) EXCEPT !.id = NullId]
               ELSE [Resp(404, -32001, FALSE, 0, 0) EXCEPT !.id = NullId]
    /\ UNCHANGED engine

\* a transport that answers every accepted GET with a stream of its own
GetAttach_NoConflict(r) ==
    /\ Passes(r)
    /\ RouteOf(r) = "attach"
    /\ Exchange(r)
    /\ LET i == sessions[r.sid] IN
       IF ~r.sdkOk
       THEN /\ resp' = Resp(406, -32000, FALSE, i, 0)
            /\ UNCHANGED engine
       ELSE /\ resp' = Resp(200, 0, FALSE, i, 0)
            /\ tStream' = [tStream EXCEPT ![i] = TRUE]
            /\ UNCHANGED <<nextInst, tSid, tClosed, nextUuid, sessions,
                           subscriptionCallbacks, subscriptions, timers, lastNote>>

\* GET for a registered session: the transport opens its standalone stream,
\* refuses a second one (409) and refuses a request it cannot accept (406)
GetAttach(r) ==
    /\ Passes(r)
    /\ RouteOf(r) = "attach"
    /\ Exchange(r)
    /\ LET i == sessions[r.sid] IN
       IF ~r.sdkOk
       THEN /\ resp' = Resp(406, -32000, FALSE, i, 0)
            /\ UNCHANGED engine
       ELSE IF tStream[i]
       THEN /\ resp' = Resp(409, -32000, FALSE, i, 0)
            /\ UNCHANGED engine
       ELSE /\ resp' = Resp(200, 0, FALSE, i, 0)
            /\ tStream' = [tStream EXCEPT ![i] = TRUE]
            /\ UNCHANGED <<nextInst, tSid, tClosed, nextUuid, sessions,
                           subscriptionCallbacks, subscriptions, timers, lastNote>>

\* server.ts subscribe handler of server i
Subscribe(uri, i) ==
    IF subscriptionCallbacks[uri] = 0
    THEN /\ resp' = Resp(200, -32602, FALSE, i, 0)
         /\ UNCHANGED <<timers, subscriptions>>
    ELSE /\ onSubscribe(uri, i)
         /\ resp' = Registered(200, 0, FALSE, i, 0, 0, subscriptions[uri] # 0)

\* server.ts unsubscribe handler of server i
Unsubscribe(uri, i) ==
    /\ resp' = Registered(200, 0, FALSE, i, 0, 0, subscriptions[uri] # 0)
    /\ IF subscriptionCallbacks[uri] = 0
       THEN UNCHANGED <<timers, subscriptions>>
       ELSE onUnsubscribe(uri)

\* POST carrying the id of a registered session
PostExisting(r) ==
    /\ Passes(r)
    /\ RouteOf(r) = "existing"
    /\ Exchange(r)
    /\ UNCHANGED <<nextInst, tSid, tStream, tClosed, nextUuid, sessions,
                   subscriptionCallbacks, lastNote>>
    /\ LET i == sessions[r.sid] IN
       IF ~r.sdkOk
       THEN /\ resp' = Resp(406, -32000, FALSE, i, 0)
            /\ UNCHANGED <<timers, subscriptions>>
       ELSE IF r.body.kind = "initialize"
       THEN /\ resp' = Resp(400, -32600, FALSE, i, 0)
            /\ UNCHANGED <<timers, subscriptions>>
       ELSE IF r.body.kind = "subscribe" THEN Subscribe(r.body.uri, i)
       ELSE IF r.body.kind = "unsubscribe" THEN Unsubscribe(r.body.uri, i)
       ELSE /\ resp' = Resp(200, 0, FALSE, i, 0)
            /\ UNCHANGED <<timers, subscriptions>>

\* a callback that registers every transport under the first session id
onsessioninitialized_FirstKey(newSessionId, transport) ==
    [sessions EXCEPT ![1] = transport]

\* a callback that forgets to register the transport
onsessioninitialized_Dropped(newSessionId, transport) == sessions

\* onsessioninitialized: this.sessions.set(newSessionId, transport)
onsessioninitialized(newSessionId, transport) ==
    [sessions EXCEPT ![newSessionId] = transport]

\* a generator that hands out its previous value again
sessionIdGenerator_Fixed == IF nextUuid = 0 THEN 1 ELSE nextUuid

\* sessionIdGenerator: randomUUID(), a value never handed out before
sessionIdGenerator == nextUuid + 1

\* a registration that makes every resource streamable
registerResourceSubscriptionCallbacks_All(uri, i) == [u \in Uris |-> i]

\* registerResources run by the constructor of server i
registerResourceSubscriptionCallbacks(uri, i) ==
    [subscriptionCallbacks EXCEPT ![uri] = i]

\* POST initialize without a session id: new transport, new server, connect,
\* then the transport handles the initialize message
PostNew(r, maxInst) ==
    /\ Passes(r)
    /\ RouteOf(r) = "new"
    /\ Exchange(r)
    /\ nextInst < maxInst
    /\ LET i == nextInst + 1 IN
       /\ nextInst' = i
       /\ subscriptionCallbacks' = registerResourceSubscriptionCallbacks(StreamUri, i)
       /\ IF r.sdkOk
          THEN /\ nextUuid' = sessionIdGenerator
               /\ tSid' = [tSid EXCEPT ![i] = sessionIdGenerator]
               /\ sessions' = onsessioninitialized(sessionIdGenerator, i)
               /\ resp' = Registered(200, 0, FALSE, i, i, sessionIdGenerator,
                                     Has(sessionIdGenerator))
          ELSE /\ resp' = Resp(406, -32000, FALSE, i, i)
               /\ UNCHANGED <<nextUuid, tSid, sessions>>
    /\ UNCHANGED <<tStream, tClosed, subscriptions, timers, lastNote>>

\* POST with neither a registered id nor an id-less initialize
PostRejected(r) ==
    /\ Passes(r)
    /\ RouteOf(r) = "post400"
    /\ Exchange(r)
    /\ resp' = [Resp(400, -32000, FALSE, 0, 0) EXCEPT !.id = NullId]
    /\ UNCHANGED engine

\* message of the 400 answer of the POST branch
PostRejectedMessage(sid) ==
    IF Truthy(sid) THEN "Session not found" ELSE "Bad Request: No valid session ID provided"

\* any other HTTP method
MethodNotAllowed(r) ==
    /\ Passes(r)
    /\ RouteOf(r) = "405"
    /\ Exchange(r)
    /\ resp' = Resp(405, 0, FALSE, 0, 0)
    /\ UNCHANGED engine

\* the transport of server i is connected and has its standalone stream open
Writable(i) == ~tClosed[i] /\ tStream[i]

\* one firing of the interval callback: server.server.sendResourceUpdated({uri})
\* on the captured server; its transport writes to the standalone stream if
\* one is open and discards the message otherwise
Tick(t) ==
    /\ pc # "exited"
    /\ t \in timers
    /\ lastNote' = IF Writable(t.target)
                   THEN [on |-> t.target, by |-> t.owner, uri |-> t.uri]
                   ELSE lastNote
    /\ timers' = (timers \ {t}) \cup
                 {[t EXCEPT !.late = IF Writable(t.target) /\ t.orphan /\ t.late < MaxLate
                                     THEN t.late + 1 ELSE t.late]}
    /\ UNCHANGED <<enableAuth, stopAt, closeFailed, now, oauthIssuer, pc, nextInst, tSid, tStream, tClosed,
                   nextUuid, sessions, subscriptionCallbacks, subscriptions, req, resp>>
    /\ UNCHANGED legacy

\* the client drops its SSE connection: the transport forgets the stream;
\* no code of the repository runs
StreamClose(i) ==
    /\ pc # "exited"
    /\ tStream[i]
    /\ tStream' = [tStream EXCEPT ![i] = FALSE]
    /\ timers' = Orphaned(timers, i)
    /\ UNCHANGED <<enableAuth, stopAt, closeFailed, now, oauthIssuer, pc, nextInst, tSid, tClosed, nextUuid, sessions,
                   subscriptionCallbacks, subscriptions, lastNote, req, resp>>
    /\ UNCHANGED legacy

\* SIGINT/SIGTERM handler up to the first await of transport.stop()
Sigint ==
    /\ pc = "running"
    /\ pc' = "closing"
    /\ cleanupResourceSubscriptions
    /\ UNCHANGED <<enableAuth, stopAt, closeFailed, now, oauthIssuer, nextInst, tSid, tStream, tClosed, nextUuid,
                   sessions, subscriptionCallbacks, lastNote, req, resp>>
    /\ UNCHANGED legacy

\* a close handler that leaves the registry alone
onclose_Keep(i) == sessions

\* transport.onclose of instance i
onclose(i) ==
    IF tSid[i] # 0 /\ Has(tSid[i]) THEN [sessions EXCEPT ![tSid[i]] = 0] ELSE sessions

\* whether the Map iterator of stop() has an entry left: entries are visited
\* in insertion order, which is the order of the ids, and an entry added
\* while the loop runs is visited as well
HasNext == \E s \in Sids : Has(s) /\ s > stopAt

\* the entry the Map iterator of stop() visits next
FirstSession ==
    CHOOSE s \in Sids : Has(s) /\ s > stopAt /\ \A s2 \in Sids : Has(s2) /\ s2 > stopAt => s <= s2

\* a loop that ends at the first close() that raises
StopLoopOver_AbortOnError == ~HasNext \/ closeFailed # {}

\* the loop of stop() is over: the try/catch is inside the loop
StopLoopOver == ~HasNext

\* stop(): one turn of the loop, await transport.close(); a close() that raises
\* is caught and logged, and the transport is taken to be left as it was;
\* Raises: whether close() can raise
StopCloseOne(Raises) ==
    /\ pc = "closing"
    /\ ~StopLoopOver
    /\ stopAt' = FirstSession
    /\ LET i == sessions[FirstSession] IN
       \E raised \in Raises :
         IF raised
         THEN /\ closeFailed' = closeFailed \cup {i}
              /\ UNCHANGED <<tStream, tClosed, timers, sessions>>
         ELSE /\ tStream' = [tStream EXCEPT ![i] = FALSE]
              /\ tClosed' = [tClosed EXCEPT ![i] = TRUE]
              /\ timers' = Orphaned(timers, i)
              /\ sessions' = onclose(i)
              /\ UNCHANGED closeFailed
    /\ UNCHANGED <<enableAuth, now, oauthIssuer, pc, nextInst, tSid, nextUuid,
                   subscriptionCallbacks, subscriptions, lastNote, req, resp>>
    /\ UNCHANGED legacy

\* stop(): the loop is over, this.sessions.clear(), httpServer.close(...) and
\* the 5 s timer
StopClear ==
    /\ pc = "closing"
    /\ StopLoopOver
    /\ sessions' = [s \in Sids |-> 0]
    /\ pc' = "draining"
    /\ UNCHANGED <<enableAuth, stopAt, closeFailed, now, oauthIssuer, nextInst, tSid, tStream,
                   tClosed, nextUuid, subscriptionCallbacks, subscriptions, timers, lastNote,
                   req, resp>>
    /\ UNCHANGED legacy

\* a stop() without the 5 s timer
ForceClose_Never == {FALSE}

\* whether the 5 s timer fires before the HTTP server has closed
ForceClose == BOOLEAN

\* the promise of stop() resolves, in the callback of httpServer.close once no
\* connection is open, or in the 5 s timer after closeAllConnections();
\* process.exit(0) follows
Exit ==
    /\ pc = "draining"
    /\ pc' = "exited"
    /\ \E forced \in ForceClose :
        IF forced
        THEN /\ tStream' = [i \in Insts |-> FALSE]
             /\ timers' = {[t EXCEPT !.orphan = t.orphan \/ tStream[t.owner]] : t \in timers}
        ELSE /\ \A i \in Insts : ~tStream[i]
             /\ UNCHANGED <<tStream, timers>>
    /\ UNCHANGED <<enableAuth, stopAt, closeFailed, now, oauthIssuer, nextInst, tSid, tClosed,
                   nextUuid, sessions, subscriptionCallbacks, subscriptions, lastNote, req, resp>>
    /\ UNCHANGED legacy

\* a second goes by
ClockTick ==
    /\ pc # "exited"
    /\ now < MaxNow
    /\ now' = now + 1
    /\ UNCHANGED <<enableAuth, stopAt, closeFailed, oauthIssuer, pc, engine, req, resp>>
    /\ UNCHANGED legacy

\* ------------------------------------------------------- specifications
\* sessions, streams, subscriptions, ticks and shutdown; every close() of
\* stop() succeeds
Next ==
    \/ \E r \in EngineRequests :
        \/ GetAttach(r)
        \/ PostExisting(r)
        \/ PostNew(r, MaxInst)
    \/ \E t \in timers : Tick(t)
    \/ \E i \in Insts : StreamClose(i)
    \/ Sigint
    \/ StopCloseOne({FALSE})
    \/ StopClear
    \/ Exit

Spec == Init /\ [][Next]_vars

\* the router under every shape of request, sessions coming and going, and a
\* stop() whose close() calls can raise
NextRouter ==
    \/ \E r \in RouterRequests :
        \/ GetRejected(r)
        \/ GetAttach(r)
        \/ PostExisting(r)
        \/ PostNew(r, MaxInst)
        \/ PostRejected(r)
        \/ MethodNotAllowed(r)
    \/ Sigint
    \/ StopCloseOne(BOOLEAN)
    \/ StopClear
    \/ Exit

SpecRouter == Init /\ [][NextRouter]_vars

\* the gate under every kind of credential, over a small registry
NextGate ==
    \/ \E r \in GateRequests :
        \/ Unauthorized(r)
        \/ GetRejected(r)
        \/ GetAttach(r)
        \/ PostExisting(r)
        \/ PostNew(r, GateMaxInst)
        \/ PostRejected(r)
        \/ MethodNotAllowed(r)
    \/ ClockTick

SpecGate == InitGate /\ [][NextGate]_vars

TypeOK ==
    /\ pc \in {"running", "closing", "draining", "exited"}
    /\ nextInst \in 0..MaxInst
    /\ nextUuid \in 0..nextInst
    /\ \A s \in Sids : sessions[s] \in 0..nextInst
    /\ \A t \in timers : t.id \in 1..MaxTimers /\ t.owner \in Insts /\ t.target \in Insts

\* ----------------------------------- the earlier, single-server transport
\* src/src/transports/http.ts: one OAuthMcpServer for every client, SSE
\* connections on GET /notifications, JSON-RPC on POST /mcp
Conns == 1..MaxConn

\* the 'connection' event written to a connection when it is accepted
ConnectionMessage == 0

\* the n-th 'resource_updated' event, numbered in the order the ticks fire
NotificationNo == ticksFired + 1

\* what a newly accepted connection is sent, had earlier notifications been kept
InitialWrites_Replay == <<ConnectionMessage>> \o [k \in 1..ticksFired |-> k]

\* what a newly accepted connection is sent
InitialWrites == <<ConnectionMessage>>

\* a write that puts the message ahead of what was written before
write_Prepend(log, n) == <<n>> \o log

\* res.write(message)
write(log, n) == Append(log, n)

\* a loop that ends at the first connection whose write throws
Reached_AbortAtFirst(fail) == {c \in sseConnections : \A f \in fail : c < f}

\* the connections whose write returns, `fail` being those whose write throws:
\* the try/catch is inside the loop
Reached(fail) == sseConnections \ fail

\* broadcastNotification
broadcastNotification(n, fail) ==
    /\ sseRes' = [c \in Conns |->
                    IF c \in Reached(fail)
                    THEN [sseRes[c] EXCEPT !.log = write(@, n)]
                    ELSE IF c \in fail THEN [sseRes[c] EXCEPT !.failed = TRUE]
                    ELSE sseRes[c]]
    /\ sseConnections' = sseConnections \ fail

\* methods of the POST /mcp switch
NotificationMethod == "notifications/initialized"
DelegatedMethods ==
    {"initialize", "tools/list", "tools/call", "resources/list", "resources/read",
     "resources/subscribe", "resources/unsubscribe", "prompts/list", "prompts/get"}
SubscriptionMethods == {"resources/subscribe", "resources/unsubscribe"}

\* a switch whose default branch delegates to the server
McpSwitch_DelegateDefault(method) ==
    IF method = NotificationMethod THEN "notification" ELSE "delegate"

\* switch (method)
McpSwitch(method) ==
    IF method = NotificationMethod THEN "notification"
    ELSE IF method \in DelegatedMethods THEN "delegate"
    ELSE "default"

\* a request of the earlier transport; jsonrpc: the body has jsonrpc '2.0';
\* fault: the call through the server fails (connect rejects, the server
\* answers with an error, or no answer comes within the timeout)
LegacyReq(p, m, u, i, j, f, h) ==
    [path |-> p, method |-> m, uri |-> u, id |-> i, jsonrpc |-> j, fault |-> f, hdr |-> h]

NoLegacyReq == LegacyReq("", "", "", NoId, FALSE, FALSE, NoHeader)

SseRequests == {LegacyReq("/notifications", "", "", NoId, FALSE, FALSE, h) : h \in {NoHeader, GoodHeader}}

McpRequests ==
    {LegacyReq("/mcp", "tools/call", "", i, TRUE, f, GoodHeader) : i \in RpcIds, f \in BOOLEAN}
    \cup {LegacyReq("/mcp", "initialize", "", OneId, TRUE, f, GoodHeader) : f \in BOOLEAN}
    \cup {LegacyReq("/mcp", m, u, OneId, TRUE, f, GoodHeader) :
        m \in SubscriptionMethods, u \in Uris, f \in BOOLEAN}
    \cup {LegacyReq("/mcp", NotificationMethod, "", NoId, TRUE, FALSE, GoodHeader)}
    \cup {LegacyReq("/mcp", "ping", "", i, TRUE, FALSE, GoodHeader) : i \in RpcIds}
    \cup {LegacyReq("/mcp", "", "", i, FALSE, FALSE, GoodHeader) : i \in RpcIds}
    \cup {LegacyReq("/mcp", "initialize", "", OneId, TRUE, FALSE, NoHeader)}
    \cup {LegacyReq("/mcp", "ping", "", i, TRUE, FALSE, NoHeader) : i \in RpcIds}

\* status, JSON-RPC error code (0 = none), id member, what the data member
\* carries ("none", "static": a fixed text of the route, "error.message": the
\* message of the caught error), WWW-Authenticate header; history: whether
\* callServerMethod was called, which subscription callback ran, and the
\* connection entered in sseConnections (0 = none)
LegacyResp(st, code, id, data, www, del, cb, conn) ==
    [status |-> st, code |-> code, id |-> id, data |-> data,
     www |-> IF www THEN generateWWWAuthenticateHeader ELSE NoChallenge,
     delegated |-> del, callback |-> cb, conn |-> conn]

NoLegacyResp == LegacyResp(0, 0, NoId, "none", FALSE, FALSE, "none", 0)

\* req.body?.id || null
IdOrNull(id) == IF TruthyId(id) THEN id ELSE NullId

\* if (this.config.enableAuth) ... authContext.isAuthorized
LegacyPasses(r) == createAuthContext(r.hdr, now).isAuthorized

\* what an exchange of the earlier transport leaves alone
LegacyExchange(r) ==
    /\ pc = "running"
    /\ req' = r
    /\ UNCHANGED <<enableAuth, stopAt, closeFailed, now, oauthIssuer, pc, nextInst, tSid, tStream, tClosed,
                   nextUuid, sessions, subscriptionCallbacks, lastNote, ticksFired, calls>>

\* GET /notifications
SseConnect(r) ==
    /\ r.path = "/notifications"
    /\ LegacyExchange(r)
    /\ UNCHANGED <<timers, subscriptions, serverTransport>>
    /\ IF ~LegacyPasses(r)
       THEN /\ resp' = LegacyResp(401, 0, NoId, "static", FALSE, FALSE, "none", 0)
            /\ UNCHANGED <<sseConnections, sseRes, nextConn>>
       ELSE /\ nextConn < MaxConn
            /\ nextConn' = nextConn + 1
            /\ sseConnections' = sseConnections \cup {nextConn'}
            /\ sseRes' = [sseRes EXCEPT ![nextConn'] = [since |-> ticksFired, log |-> InitialWrites, failed |-> FALSE]]
            /\ resp' = LegacyResp(200, 0, NoId, "none", FALSE, FALSE, "none", nextConn')

\* req.on('close') and req.on('error') of a connection; the history of a
\* response the client has closed is not kept
SseClose(c) ==
    /\ c \in sseConnections
    /\ sseConnections' = sseConnections \ {c}
    /\ sseRes' = [sseRes EXCEPT ![c] = NoRes]
    /\ UNCHANGED <<enableAuth, stopAt, closeFailed, now, oauthIssuer, pc, engine, req, resp, nextConn, ticksFired,
                   calls, serverTransport>>

\* POST /mcp without a valid credential
LegacyUnauthorized(r) ==
    /\ r.path = "/mcp"
    /\ ~LegacyPasses(r)
    /\ LegacyExchange(r)
    /\ resp' = IF r.method = "initialize"
               THEN LegacyResp(401, 0, NoId, "static", TRUE, FALSE, "none", 0)
               ELSE LegacyResp(401, -32001, IdOrNull(r.id), "static", FALSE, FALSE, "none", 0)
    /\ UNCHANGED <<timers, subscriptions, sseConnections, sseRes, nextConn, serverTransport>>

\* POST /mcp whose body is missing or is not JSON-RPC 2.0
LegacyInvalid(r) ==
    /\ r.path = "/mcp"
    /\ LegacyPasses(r)
    /\ ~r.jsonrpc
    /\ LegacyExchange(r)
    /\ resp' = LegacyResp(400, -32600, IdOrNull(r.id), "static", FALSE, FALSE, "none", 0)
    /\ UNCHANGED <<timers, subscriptions, sseConnections, sseRes, nextConn, serverTransport>>

\* case 'notifications/initialized'
LegacyNotification(r) ==
    /\ r.path = "/mcp"
    /\ LegacyPasses(r)
    /\ r.jsonrpc
    /\ McpSwitch(r.method) = "notification"
    /\ LegacyExchange(r)
    /\ resp' = LegacyResp(204, 0, NoId, "none", FALSE, FALSE, "none", 0)
    /\ UNCHANGED <<timers, subscriptions, sseConnections, sseRes, nextConn, serverTransport>>

\* the catch of the route: callServerMethod rejected
LegacyInternalError(r, cb) ==
    LegacyResp(500, -32603, IdOrNull(r.id), "error.message", FALSE, TRUE, cb, 0)

\* ----------------------------------- callServerMethod, one call at a time
CallIds == 1..MaxCalls

\* messages the server hands to the send of a transport
ResourceUpdated == "notifications/resources/updated"
Result == "result"
ErrorAnswer == "error"

\* a send without the notification case
isResourceUpdated_Never(kind) == FALSE

\* message.method === 'notifications/resources/updated'
isResourceUpdated(kind) == kind = ResourceUpdated

\* the route after its await: the result under the id of the request
Fulfilled(r) == LegacyResp(200, 0, r.id, "none", FALSE, TRUE, "none", 0)

\* the handler of call `from` has returned (0: the message is not an answer)
Returned(cs, from) == IF from \in 1..MaxCalls THEN [cs EXCEPT ![from].running = FALSE] ELSE cs

\* persistentTransport.send of the transport of call d, handed a message the
\* handler of call `from` produced (0: the interval of a subscription)
send(d, kind, from) ==
    IF isResourceUpdated(kind)
    THEN /\ \E fail \in SUBSET sseConnections : broadcastNotification(NotificationNo, fail)
         /\ UNCHANGED <<calls, req, resp>>
    ELSE /\ UNCHANGED <<sseConnections, sseRes>>
         /\ IF d \in CallIds /\ ~calls[d].responseHandled
            THEN IF calls[d].st = "pending"
                 THEN /\ calls' = Returned([calls EXCEPT
                                    ![d].responseHandled = TRUE,
                                    ![d].st = IF kind = ErrorAnswer THEN "rejected" ELSE "resolved",
                                    ![d].why = "message",
                                    ![d].got = from], from)
                      /\ req' = calls[d].r
                      /\ resp' = IF kind = ErrorAnswer
                                 THEN LegacyInternalError(calls[d].r, "none")
                                 ELSE Fulfilled(calls[d].r)
                 ELSE /\ calls' = Returned([calls EXCEPT ![d].responseHandled = TRUE,
                                                          ![d].late = TRUE], from)
                      /\ UNCHANGED <<req, resp>>
            ELSE /\ calls' = Returned(IF d \in CallIds
                                      THEN [calls EXCEPT ![d].late = TRUE] ELSE calls, from)
                 /\ UNCHANGED <<req, resp>>

\* the interval of a subscription fires: sendResourceUpdated reaches the
\* send of the transport the server is connected to, which broadcasts
LegacyTick(t) ==
    /\ t \in timers
    /\ ticksFired < MaxTicks
    /\ ticksFired' = ticksFired + 1
    /\ send(serverTransport, ResourceUpdated, 0)
    /\ UNCHANGED <<enableAuth, stopAt, closeFailed, now, oauthIssuer, pc, engine, nextConn, serverTransport>>

\* requests whose handler awaits a timer (tools/call fetch_market_data), each
\* under its own id
SlowRequests ==
    {LegacyReq("/mcp", "tools/call", "", i, TRUE, FALSE, GoodHeader) : i \in {OneId, NumId(2)}}
    \cup {LegacyReq("/mcp", "tools/call", "", OneId, TRUE, TRUE, GoodHeader)}

\* the slot of the next call
NextCall ==
    CHOOSE c \in CallIds : calls[c].st = "free" /\ \A b \in CallIds : b < c => calls[b].st # "free"

\* POST /mcp, delegated case, up to the await of callServerMethod: the
\* executor makes a transport, connects the server to it, hands it the
\* request and arms the timer; a connect that rejects (r.fault) rejects the
\* call in the same turn
CallStart(r) ==
    /\ pc = "running"
    /\ \E c \in CallIds : calls[c].st = "free"
    /\ LegacyPasses(r) /\ r.jsonrpc /\ McpSwitch(r.method) = "delegate"
    /\ IF r.fault
       THEN /\ calls' = [calls EXCEPT ![NextCall] =
                            Call(r, "rejected", "connect", 0, FALSE, FALSE, TRUE)]
            /\ serverTransport' \in {serverTransport, NextCall}
            /\ req' = r
            /\ resp' = LegacyInternalError(r, "none")
       ELSE /\ calls' = [calls EXCEPT ![NextCall] =
                            Call(r, "pending", "none", 0, FALSE, TRUE, TRUE)]
            /\ serverTransport' = NextCall
            /\ UNCHANGED <<req, resp>>
    /\ UNCHANGED <<enableAuth, stopAt, closeFailed, now, oauthIssuer, pc, engine,
                   sseConnections, sseRes, nextConn, ticksFired>>

\* the handler of the request of call c completes and the server sends its
\* answer: on the transport the request came in on, or on the transport the
\* server is connected to now; which of the two is decided by the SDK
ServerRespond(c, kind) ==
    /\ c \in CallIds
    /\ calls[c].running
    /\ \E d \in {c, serverTransport} : send(d, kind, c)
    /\ UNCHANGED <<enableAuth, stopAt, closeFailed, now, oauthIssuer, pc, engine, nextConn, ticksFired,
                   serverTransport>>

\* the 10 s timer of call c fires
CallTimeout(c) ==
    /\ c \in CallIds
    /\ calls[c].timer
    /\ IF ~calls[c].responseHandled /\ calls[c].st = "pending"
       THEN /\ calls' = [calls EXCEPT ![c].timer = FALSE, ![c].responseHandled = TRUE,
                                      ![c].st = "rejected", ![c].why = "timeout"]
            /\ req' = calls[c].r
            /\ resp' = LegacyInternalError(calls[c].r, "none")
       ELSE /\ calls' = [calls EXCEPT ![c].timer = FALSE, ![c].responseHandled = TRUE]
            /\ UNCHANGED <<req, resp>>
    /\ UNCHANGED <<enableAuth, stopAt, closeFailed, now, oauthIssuer, pc, engine,
                   sseConnections, sseRes, nextConn, ticksFired, serverTransport>>

\* the nine delegated cases, for a request the server answers within the turn
\* of the call: callServerMethod connects the server to a new transport, then
\* the result under the request's id; the subscribe and unsubscribe handlers
\* are those of server.ts
LegacyDelegate(r) ==
    /\ r.path = "/mcp"
    /\ LegacyPasses(r)
    /\ r.jsonrpc
    /\ McpSwitch(r.method) = "delegate"
    /\ LegacyExchange(r)
    /\ UNCHANGED <<sseConnections, sseRes, nextConn>>
    /\ serverTransport' \in IF r.fault THEN {serverTransport, DoneTransport} ELSE {DoneTransport}
    /\ IF r.fault
       THEN /\ resp' = LegacyInternalError(r, "none")
            /\ UNCHANGED <<timers, subscriptions>>
       ELSE IF r.method = "resources/subscribe"
       THEN IF subscriptionCallbacks[r.uri] = 0
            THEN /\ resp' = LegacyInternalError(r, "none")
                 /\ UNCHANGED <<timers, subscriptions>>
            ELSE /\ onSubscribe(r.uri, subscriptionCallbacks[r.uri])
                 /\ resp' = LegacyResp(200, 0, r.id, "none", FALSE, TRUE, "onSubscribe", 0)
       ELSE IF r.method = "resources/unsubscribe"
       THEN IF subscriptionCallbacks[r.uri] = 0
            THEN /\ resp' = LegacyResp(200, 0, r.id, "none", FALSE, TRUE, "none", 0)
                 /\ UNCHANGED <<timers, subscriptions>>
            ELSE /\ onUnsubscribe(r.uri)
                 /\ resp' = LegacyResp(200, 0, r.id, "none", FALSE, TRUE, "onUnsubscribe", 0)
       ELSE /\ resp' = LegacyResp(200, 0, r.id, "none", FALSE, TRUE, "none", 0)
            /\ UNCHANGED <<timers, subscriptions>>

\* the default case of the switch
LegacyDefault(r) ==
    /\ r.path = "/mcp"
    /\ LegacyPasses(r)
    /\ r.jsonrpc
    /\ McpSwitch(r.method) = "default"
    /\ LegacyExchange(r)
    /\ resp' = LegacyResp(200, -32601, r.id, "static", FALSE, FALSE, "none", 0)
    /\ UNCHANGED <<timers, subscriptions, sseConnections, sseRes, nextConn, serverTransport>>

\* start(): server.initialize() only logs, then app.listen sets httpServer
LegacyStart ==
    /\ pc = "constructed"
    /\ pc' = "running"
    /\ UNCHANGED <<enableAuth, stopAt, closeFailed, now, oauthIssuer, engine, req, resp>>
    /\ UNCHANGED legacy

\* OAuthMcpServer.shutdown: cleanupResourceSubscriptions, then server.close()
shutdown ==
    /\ cleanupResourceSubscriptions
    /\ tClosed' = [tClosed EXCEPT ![1] = TRUE]

\* stop() up to its return: every connection is ended and the map cleared;
\* with an httpServer (start() has run) it returns the promise that
\* httpServer.close settles, and the shutdown of the server below that return
\* is not reached; without one it runs the shutdown
LegacyStop ==
    /\ pc \in {"constructed", "running"}
    /\ sseConnections' = {}
    /\ IF pc = "running"
       THEN /\ pc' = "draining"
            /\ UNCHANGED <<timers, subscriptions, tClosed>>
       ELSE /\ pc' = "shutdown"
            /\ shutdown
    /\ UNCHANGED <<enableAuth, stopAt, closeFailed, now, oauthIssuer, nextInst, tSid, tStream, nextUuid, sessions,
                   subscriptionCallbacks, lastNote, req, resp, sseRes, nextConn, ticksFired,
                   calls, serverTransport>>

\* the callback of httpServer.close: the promise stop() returned resolves
LegacyStopped ==
    /\ pc = "draining"
    /\ pc' = "stopped"
    /\ UNCHANGED <<enableAuth, stopAt, closeFailed, now, oauthIssuer, engine, req, resp>>
    /\ UNCHANGED legacy

\* the earlier transport after its constructor: one server, whose
\* registerResources has registered the callbacks of the stream uri
InitLegacy ==
    /\ enableAuth = TRUE
    /\ now = 0
    /\ oauthIssuer = IssASlash
    /\ pc = "constructed"
    /\ nextInst = 1
    /\ tSid = [i \in Insts |-> 0]
    /\ tStream = [i \in Insts |-> FALSE]
    /\ tClosed = [i \in Insts |-> FALSE]
    /\ nextUuid = 0
    /\ sessions = [s \in Sids |-> 0]
    /\ subscriptionCallbacks = [u \in Uris |-> IF u = StreamUri THEN 1 ELSE 0]
    /\ subscriptions = [u \in Uris |-> 0]
    /\ timers = {}
    /\ lastNote = NoNote
    /\ req = NoLegacyReq
    /\ resp = NoLegacyResp
    /\ sseConnections = {}
    /\ sseRes = [c \in Conns |-> NoRes]
    /\ nextConn = 0
    /\ ticksFired = 0
    /\ calls = [c \in 1..MaxCalls |-> NoCall]
    /\ serverTransport = NoTransport
    /\ stopAt = 0
    /\ closeFailed = {}

NextLegacy ==
    \/ LegacyStart
    \/ \E r \in SseRequests : SseConnect(r)
    \/ \E c \in Conns : SseClose(c)
    \/ \E t \in timers : LegacyTick(t)
    \/ \E r \in McpRequests :
        \/ LegacyUnauthorized(r)
        \/ LegacyInvalid(r)
        \/ LegacyNotification(r)
        \/ LegacyDelegate(r)
        \/ LegacyDefault(r)

SpecLegacy == InitLegacy /\ [][NextLegacy]_vars

\* requests of the shutdown specification: the subscription traffic
StopRequests ==
    {LegacyReq("/mcp", m, StreamUri, OneId, TRUE, FALSE, GoodHeader) : m \in SubscriptionMethods}

\* the earlier transport from start() to the end of stop()
NextLegacyStop ==
    \/ LegacyStart
    \/ LegacyStop
    \/ LegacyStopped
    \/ \E r \in SseRequests : SseConnect(r)
    \/ \E c \in Conns : SseClose(c)
    \/ \E t \in timers : LegacyTick(t)
    \/ \E r \in StopRequests : LegacyDelegate(r)

SpecLegacyStop == InitLegacy /\ [][NextLegacyStop]_vars

\* requests of the calls specification that the server answers within the turn
FastRequests ==
    {LegacyReq("/mcp", "resources/subscribe", StreamUri, OneId, TRUE, FALSE, GoodHeader)}

\* concurrent calls through the one server, with notifications
NextCalls ==
    \/ LegacyStart
    \/ \E r \in SlowRequests : CallStart(r)
    \/ \E c \in CallIds, kind \in {Result, ErrorAnswer} : ServerRespond(c, kind)
    \/ \E c \in CallIds : CallTimeout(c)
    \/ \E r \in FastRequests : LegacyDelegate(r)
    \/ \E t \in timers : LegacyTick(t)

SpecCalls == InitLegacy /\ [][NextCalls]_vars

\* ... where every timer that is armed fires
SpecCallsLive == SpecCalls /\ WF_vars(\E c \in CallIds : CallTimeout(c))

LegacyTypeOK ==
    /\ sseConnections \subseteq 1..nextConn
    /\ nextConn \in 0..MaxConn
    /\ ticksFired \in 0..MaxTicks
    /\ \A c \in Conns : sseRes[c].since \in 0..ticksFired

\* ------------------------------------------------------------- properties
Registry == {s \in Sids : Has(s)}
IdLess(r) == r.sid \in {NoSid, EmptySid}
TasksOf(i, u) == {t \in timers : t.owner = i /\ t.uri = u}

\* C1: a resource-updated notification produced by a subscription made through
\* one session is never written to the stream of another session, even when
\* both subscribe to the same uri and whatever the order of their creation.
C1_NoCrossDelivery == lastNote.on = lastNote.by

\* C2: there is at most one live recurring task per (session, uri) pair after
\* any sequence of subscribe, unsubscribe and cleanup; a subscribe that finds a
\* handle for the uri cancels it first, so exactly one task is left.
C2_OneTaskPerSessionUri ==
    /\ \A i \in Insts, u \in Uris : Cardinality(TasksOf(i, u)) <= 1
    /\ \A u \in Uris : subscriptions[u] # 0 =>
            \E i \in Insts : \E t \in TasksOf(i, u) : t.id = subscriptions[u]

\* a second subscribe has just replaced the handle of the uri
C2_Witness ==
    /\ req.body = [kind |-> "subscribe", uri |-> StreamUri]
    /\ resp.status = 200 /\ resp.code = 0 /\ resp.overwrote
    /\ Cardinality(TasksOf(resp.invoked, StreamUri)) = 1

\* C3: once the bound stream (the transport) of a session has closed, the
\* tasks of its subscriptions are cancelled: at most one notification of a
\* tick already in flight still reaches a stream, and none after it.
C3_CloseCancelsTasks == \A t \in timers : t.orphan => t.late <= 1

\* no session lookup succeeded, nothing was constructed, registered or dispatched
Untouched == resp.invoked = 0 /\ resp.created = 0 /\ resp.registered = 0

\* the step handled a request and answered it with this exchange
Answered == req' # req \/ resp' # resp

\* C5: a GET /mcp is rejected before any channel is opened when its session id
\* is missing (400) or is not in the registry (404); no session is created and
\* no transport is invoked.
C5_AttachRejected ==
    /\ [](req.method = "GET" /\ IdLess(req) => resp.status = 400 /\ Untouched)
    /\ [](req.method = "GET" /\ ~IdLess(req) /\ ~req.known => resp.status = 404 /\ Untouched)
    /\ [][Answered /\ req'.method = "GET" /\ (IdLess(req') \/ ~req'.known)
            => UNCHANGED engine]_vars

C5_Witness ==
    /\ req.method = "GET" /\ req.sid = ForeignSid /\ ~req.known
    /\ resp.status = 404
    /\ Registry # {}

\* C6: the id a successful initialize registers is different from the id of
\* every session in the registry, and registering it overwrites no entry:
\* every entry holds the transport that owns its key.
C6_FreshSessionId ==
    /\ resp.registered # 0 => ~resp.overwrote
    /\ \A s \in Registry : tSid[sessions[s]] = s
    /\ \A s1, s2 \in Registry : sessions[s1] = sessions[s2] => s1 = s2

C6_Witness ==
    /\ resp.registered # 0 /\ resp.status = 200
    /\ Has(resp.registered)
    /\ Cardinality(Registry) >= 2

\* what the claim calls an expired, absent or otherwise invalid credential
BadCredential(h, at) ==
    \/ h.scheme # "bearer"
    \/ h.tok.kind # "jwt"
    \/ h.tok.iss \notin {IssA, IssASlash}
    \/ IF h.tok.aud.isArray
       THEN \A k \in 1..Len(h.tok.aud.items) : h.tok.aud.items[k] # oauthAudience
       ELSE h.tok.aud.items # <<oauthAudience>>
    \/ (h.tok.exp # NoExp /\ h.tok.exp < at)

C8_DisabledAuthPasses ==
    ~enableAuth =>
        /\ \A h \in GateHeaders, a \in 0..MaxNow :
              LET ctx == createAuthContext(h, a) IN
              ctx.isAuthorized /\ ~ctx.hasToken /\ ~ctx.hasPayload
        /\ req.method # "none" => resp.status # 401

C8_Witness ==
    /\ ~enableAuth
    /\ req.method = "POST" /\ req.known /\ req.body = OtherBody
    /\ BadCredential(req.hdr, req.at)
    /\ resp.status = 200 /\ resp.invoked # 0

\* C9: a POST without session id whose body is an initialize request creates
\* exactly one new session, with a transport and a server instance of its own,
\* registered under its generated id once initialization completes.
C9_InitCreatesOneSession ==
    /\ [](req.method = "POST" /\ IdLess(req) /\ isInitializeRequest(req.body) /\ req.sdkOk
            => /\ resp.status = 200
               /\ resp.created # 0 /\ resp.invoked = resp.created
               /\ resp.registered # 0 /\ tSid[resp.created] = resp.registered
               /\ \/ sessions[resp.registered] = resp.created
                  \/ tClosed[resp.created]
                  \/ resp.created \in closeFailed /\ pc \in {"draining", "exited"})
    /\ [][nextInst' # nextInst
            => /\ nextInst' = nextInst + 1
               /\ resp'.created = nextInst'
               /\ IF req'.sdkOk
                  THEN \E s \in Sids : /\ ~Has(s)
                                       /\ sessions' = [sessions EXCEPT ![s] = nextInst']
                  ELSE sessions' = sessions]_vars

C9_Witness ==
    /\ req.method = "POST" /\ req.sid = NoSid /\ isInitializeRequest(req.body) /\ req.sdkOk
    /\ resp.status = 200 /\ resp.registered # 0
    /\ sessions[resp.registered] = resp.created
    /\ Cardinality(Registry) >= 2

\* C10: a POST that carries no session id and is not an initialize request, or
\* that carries a session id absent from the registry (whatever its method,
\* initialize included), is rejected with an error response and leaves the
\* session registry unchanged.
C10_PostRejected ==
    /\ [](req.method = "POST"
            /\ ((IdLess(req) /\ ~isInitializeRequest(req.body)) \/ (~IdLess(req) /\ ~req.known))
            => resp.status = 400 /\ resp.code = -32000 /\ Untouched)
    /\ [][Answered /\ req'.method = "POST"
            /\ ((IdLess(req') /\ ~isInitializeRequest(req'.body))
                \/ (~IdLess(req') /\ ~req'.known))
            => sessions' = sessions /\ nextInst' = nextInst]_vars

C10_Witness ==
    /\ req.method = "POST" /\ req.sid = ForeignSid /\ isInitializeRequest(req.body)
    /\ resp.status = 400
    /\ Registry # {}

\* C11: a POST carrying a session id that is in the registry is handed to the
\* transport of that session whatever its method, initialize included; it
\* constructs and registers nothing and reaches no other session's transport.
C11_PostExistingRouted ==
    /\ [](req.method = "POST" /\ req.known
            => /\ resp.invoked # 0 /\ tSid[resp.invoked] = req.sid
               /\ resp.created = 0 /\ resp.registered = 0)
    /\ [][Answered /\ req'.method = "POST" /\ req'.known
            => /\ resp'.invoked = sessions[req'.sid]
               /\ sessions' = sessions /\ nextInst' = nextInst /\ tSid' = tSid]_vars

\* an initialize sent on the first of two registered sessions
C11_Witness ==
    /\ req.method = "POST" /\ req.known /\ isInitializeRequest(req.body)
    /\ Cardinality(Registry) >= 2
    /\ resp.invoked = sessions[req.sid] /\ resp.status = 400 /\ resp.code = -32600
    /\ \E s \in Registry : s > req.sid

\* the id was generated for a transport that has been closed since
ClosedSid(sid) == \E i \in Insts : tSid[i] = sid /\ tClosed[i]

\* C12: once a session has been closed and removed from the registry, its id
\* is never registered again, and every later GET or POST carrying that id is
\* rejected as session not found, whatever its JSON-RPC method.
C12_ClosedNeverReused ==
    /\ [](\A s \in Sids : ClosedSid(s) => ~Has(s))
    /\ [][Answered /\ ClosedSid(req'.sid) /\ req'.method \in {"GET", "POST"}
            => /\ ~req'.known /\ resp'.invoked = 0 /\ resp'.created = 0
               /\ resp'.registered = 0
               /\ IF req'.method = "GET"
                  THEN resp'.status = 404 /\ resp'.code = -32001
                  ELSE /\ resp'.status = 400 /\ resp'.code = -32000
                       /\ PostRejectedMessage(req'.sid) = "Session not found"
               /\ UNCHANGED engine]_vars

\* an initialize carrying the id of a closed session while another session
\* is still registered
C12_Witness ==
    /\ ClosedSid(req.sid) /\ req.method = "POST" /\ isInitializeRequest(req.body)
    /\ ~req.known /\ resp.status = 400
    /\ Registry # {}

C14_SubscribeNotStreamable ==
    /\ [](subscriptionCallbacks[AccountUri] = 0 /\ subscriptions[AccountUri] = 0)
    /\ [][Answered /\ req'.known /\ req'.body.kind = "subscribe" /\ req'.body.uri # StreamUri
            => /\ resp'.code = -32602 /\ resp'.invoked = sessions[req'.sid]
               /\ timers' = timers /\ subscriptions' = subscriptions
               /\ sessions' = sessions /\ tClosed' = tClosed /\ tStream' = tStream]_vars

\* the refused subscribe arrived on a session with an open stream while a
\* task of the streamable uri was running
C14_Witness ==
    /\ req.known /\ req.body = [kind |-> "subscribe", uri |-> AccountUri]
    /\ resp.code = -32602
    /\ Has(req.sid) /\ tStream[sessions[req.sid]]
    /\ subscriptions[StreamUri] # 0 /\ timers # {}

\* C15: unsubscribe always returns an empty acknowledgment and never an error;
\* when no handle exists for the uri it changes no state, and it leaves no
\* handle behind, so that unsubscribing twice leaves the state of once.
C15_UnsubscribeIdempotent ==
    /\ [](req.known /\ req.body.kind = "unsubscribe" => resp.status = 200 /\ resp.code = 0)
    /\ [][Answered /\ req'.known /\ req'.body.kind = "unsubscribe"
            => /\ subscriptions'[req'.body.uri] = 0
               /\ \A t \in timers' : t.uri # req'.body.uri
               /\ subscriptions[req'.body.uri] = 0 => UNCHANGED engine
               /\ UNCHANGED <<sessions, tStream, tClosed, subscriptionCallbacks, lastNote>>]_vars

\* an unsubscribe of the streamable uri that found no handle, after tasks
\* have run in this process
C15_Witness ==
    /\ req.known /\ req.body = [kind |-> "unsubscribe", uri |-> StreamUri]
    /\ resp.status = 200 /\ resp.code = 0 /\ ~resp.overwrote
    /\ subscriptions[StreamUri] = 0 /\ timers = {}
    /\ lastNote # NoNote

\* C16: with authorization enabled and an absent or invalid credential, a GET
\* is answered 401 with a WWW-Authenticate challenge that points to the
\* protected-resource metadata document, and any other request is answered
\* with a JSON-RPC error of code -32001 that carries the id of the request,
\* whatever id the client sent, and no challenge header.
C16_UnauthorizedAnswers ==
    enableAuth /\ req.method # "none" /\ BadCredential(req.hdr, req.at)
        => /\ resp.status = 401
           /\ IF req.method = "GET"
              THEN /\ resp.www.scheme = "Bearer"
                   /\ resp.www.port = httpPort
                   /\ resp.www.path = ProtectedResourceRoute
              ELSE /\ resp.www = NoChallenge
                   /\ resp.code = -32001
                   /\ req.id.t # "absent" => resp.id = req.id

BearerJwt(r) == r.method # "none" /\ r.hdr.scheme = "bearer" /\ r.hdr.tok.kind = "jwt"

\* C18: with authorization enabled, a credential is accepted only if its exp
\* is strictly greater than the current time: a token whose exp equals the
\* current second, is earlier, or is missing is rejected.
C18_ExpStrictlyGreater ==
    enableAuth /\ BearerJwt(req) /\ (req.hdr.tok.exp = NoExp \/ req.hdr.tok.exp <= req.at)
        => resp.status = 401

\* the issuer of the token is the configured one up to one trailing slash
IssuerMatches(tok) == tok.iss \in {IssA, IssASlash}

\* the aud of the token is, or contains, the configured audience
AudienceMatches(tok) ==
    tok.aud \in {StrAud(oauthAudience), ArrAud(<<"other", oauthAudience>>)}

\* C19: with authorization enabled, a decoded token passes issuer validation
\* exactly when its issuer equals the configured issuer after trailing-slash
\* normalization of both, and audience validation exactly when its aud equals
\* (string) or contains (array) the configured audience; failing either check
\* makes the request unauthorized.
C19_IssuerAudience ==
    /\ oauthIssuer = IssASlash
    /\ \A t \in GateTokens : t.kind = "jwt" =>
          /\ normalizeUrl(t.iss) = normalizeUrl(oauthIssuer) <=> IssuerMatches(t)
          /\ isValidAudience(t.aud) <=> AudienceMatches(t)
    /\ enableAuth /\ BearerJwt(req)
          => /\ ~(IssuerMatches(req.hdr.tok) /\ AudienceMatches(req.hdr.tok))
                    => resp.status = 401
             /\ resp.status = 401 /\ ~isExpired(req.hdr.tok.exp, req.at)
                    => ~(IssuerMatches(req.hdr.tok) /\ AudienceMatches(req.hdr.tok))

\* accepted: an issuer written without the slash of the configured one, and
\* an array aud that contains the configured audience
C19_Witness ==
    /\ enableAuth /\ BearerJwt(req)
    /\ req.hdr.tok.aud.isArray /\ req.hdr.tok.iss # oauthIssuer
    /\ resp.status = 200 /\ resp.invoked # 0

\* the header carries a token, after 'Bearer ' or not
CarriesToken(h) == h.scheme # "none" /\ h.tok.kind # "empty"

\* C20 as stated: every extraction, decoding or validation failure, missing
\* scheme prefix included, yields a context with authorized = false in which
\* the raw token is preserved.
C20_FailurePreservesToken ==
    enableAuth /\ req.method # "none" /\ CarriesToken(req.hdr)
        => LET ctx == createAuthContext(req.hdr, req.at) IN
           ~ctx.isAuthorized => ctx.hasToken /\ ctx.token = req.hdr.tok

\* C20: createAuthContext returns a context for every header value; a failed
\* extraction (no header, no 'Bearer ' prefix, empty token) yields authorized
\* = false without a token, a failed decoding or validation yields authorized
\* = false with the raw token preserved and no payload.
C20_FailureContext ==
    enableAuth /\ req.method # "none"
        => LET ctx == createAuthContext(req.hdr, req.at) IN
           /\ ctx.isAuthorized <=> resp.status # 401
           /\ req.hdr.scheme # "bearer" \/ req.hdr.tok.kind = "empty"
                => ctx = AuthCtx(FALSE, FALSE, EmptyTok, FALSE)
           /\ req.hdr.scheme = "bearer" /\ req.hdr.tok.kind # "empty" /\ ~ctx.isAuthorized
                => ctx.hasToken /\ ctx.token = req.hdr.tok /\ ~ctx.hasPayload
           /\ ctx.isAuthorized => ctx.hasToken /\ ctx.token = req.hdr.tok /\ ctx.hasPayload

\* a valid token sent without the 'Bearer ' prefix was refused
C20_Witness ==
    /\ enableAuth /\ req.method = "POST" /\ req.known
    /\ req.hdr = Hdr("basic", GoodJwt)
    /\ resp.status = 401
    /\ createAuthContext(req.hdr, req.at) = AuthCtx(FALSE, FALSE, EmptyTok, FALSE)

\* C21: once the SIGINT/SIGTERM handler and the stop() it awaits have
\* completed, every session that was registered has had its transport closed,
\* the session registry is empty, and no subscription task is scheduled.
C21_ShutdownLeavesNothing ==
    pc = "exited"
        => /\ Registry = {}
           /\ \A i \in Insts : tSid[i] # 0 => tClosed[i]
           /\ timers = {}

\* session i has a task of the streamable uri that notifies its own server
OwnTask(i, ts) == \E t \in ts : t.uri = StreamUri /\ t.owner = i /\ t.target = i

\* C22: after a session has initialized and subscribed to stream://market/AAPL
\* the notifications of that uri go to the session's own stream, and they keep
\* coming until that session unsubscribes, whatever other sessions are created
\* or subscribe in the meantime.
C22_OwnStreamUntilUnsubscribe ==
    /\ [][Answered /\ req'.known /\ req'.body = [kind |-> "subscribe", uri |-> StreamUri]
            /\ resp'.code = 0
            => OwnTask(resp'.invoked, timers')]_vars
    /\ [][\A i \in Insts :
            /\ OwnTask(i, timers)
            /\ pc' = "running"
            /\ ~(Answered /\ req'.body.kind = "unsubscribe" /\ resp'.invoked = i)
            => OwnTask(i, timers')]_vars

\* C25: once unsubscribe(uri) has been processed no further tick of that uri
\* fires: every notification that reaches a stream comes from the interval
\* whose handle the map holds for its uri at that moment, and an unsubscribe
\* leaves neither a handle nor an interval of the uri.
C25_NoTickAfterUnsubscribe ==
    /\ [][lastNote' # lastNote
            => /\ subscriptions[lastNote'.uri] # 0
               /\ \E t \in timers : /\ t.id = subscriptions[lastNote'.uri]
                                     /\ t.uri = lastNote'.uri
                                     /\ t.target = lastNote'.on]_vars
    /\ [][Answered /\ req'.known /\ req'.body.kind = "unsubscribe"
            => /\ subscriptions'[req'.body.uri] = 0
               /\ \A t \in timers' : t.uri # req'.body.uri
               /\ lastNote' = lastNote]_vars

\* an unsubscribe that cancelled an interval whose notifications had been
\* reaching a stream that is still open
C25_Witness ==
    /\ req.known /\ req.body = [kind |-> "unsubscribe", uri |-> StreamUri]
    /\ resp.overwrote /\ resp.code = 0
    /\ lastNote.uri = StreamUri /\ lastNote.on # 0 /\ Writable(lastNote.on)
    /\ timers = {} /\ pc = "running"

\* the stream of session i has closed since one of its tasks was started, and
\* the session has not attached another
StreamGone(i) == ~tStream[i] /\ \E t \in timers : t.owner = i /\ t.orphan

\* C29: after cleanup of a session has started (its stream has closed, or
\* shutdown has begun), a subscribe request for that session is not accepted
\* and starts no recurring task.
C29_NoSubscribeAfterCleanup ==
    [][Answered /\ req'.known /\ req'.body = [kind |-> "subscribe", uri |-> StreamUri]
        /\ (pc # "running" \/ StreamGone(sessions[req'.sid]))
        => resp'.code # 0 /\ timers' = timers /\ subscriptions' = subscriptions]_vars

\* the handles the subscriptions map holds
Handles == {subscriptions[u] : u \in Uris} \ {0}

Delivered(c) == SelectSeq(sseRes[c].log, LAMBDA n : n # ConnectionMessage)

\* C23: a notification emitted while no stream is bound is dropped and not
\* queued: nothing is written anywhere by its broadcast, and a stream attached
\* later is only ever written notifications of ticks that fired after it was
\* attached.
C23_DroppedNotQueued ==
    /\ [](\A c \in Conns : \A k \in 1..Len(Delivered(c)) :
            Delivered(c)[k] > sseRes[c].since)
    /\ [][ticksFired' # ticksFired /\ sseConnections = {} => sseRes' = sseRes]_vars

\* a tick fired before the first connection was made, and a later one reached it
C23_Witness ==
    /\ nextConn = 1
    /\ sseRes[1].since >= 1
    /\ Len(Delivered(1)) >= 1

\* C24: a failed write of a notification to one stream does not prevent its
\* delivery to the other open streams and does not stop later notifications
\* to them; only the failing connection is dropped.
C24_FailedWriteIsolated ==
    [][ticksFired' # ticksFired =>
        /\ \A c \in sseConnections' : c \in sseConnections
                /\ sseRes'[c].log = Append(sseRes[c].log, ticksFired')
        /\ \A c \in sseConnections \ sseConnections' :
                sseRes'[c].failed /\ sseRes'[c].log = sseRes[c].log
        /\ timers' = timers /\ subscriptions' = subscriptions]_vars

\* the write of the first notification threw on connection 1 and reached
\* connection 2, which the second notification reached as well
C24_Witness ==
    /\ sseRes[1].failed /\ 1 \notin sseConnections /\ Delivered(1) = <<>>
    /\ 2 \in sseConnections /\ sseRes[2].since = 0 /\ Delivered(2) = <<1, 2>>

Unrecognized(r) ==
    /\ r.path = "/mcp" /\ r.jsonrpc /\ LegacyPasses(r)
    /\ r.method # NotificationMethod /\ r.method \notin DelegatedMethods

\* C27: a well-formed request whose method is not one of the recognized
\* methods is answered with a JSON-RPC "method not found" error (code -32601)
\* carrying the request's id, and no capability or subscription handler is
\* invoked for it.
C27_MethodNotFound ==
    /\ [](Unrecognized(req) =>
            /\ resp.status = 200 /\ resp.code = -32601 /\ resp.id = req.id
            /\ ~resp.delegated /\ resp.callback = "none")
    /\ [][(req' # req \/ resp' # resp) /\ Unrecognized(req') =>
            timers' = timers /\ subscriptions' = subscriptions]_vars

\* 'ping' with id 0 arrived while a subscription was live
C27_Witness ==
    /\ req.method = "ping" /\ req.hdr = GoodHeader /\ req.id = NumId(0)
    /\ resp.code = -32601 /\ resp.id = NumId(0)
    /\ subscriptions[StreamUri] # 0 /\ timers # {}

\* C28: an unexpected failure while handling a request is surfaced to the
\* caller only as a generic message that discloses no internal detail,
\* together with the request's correlation id.
C28_GenericInternalError ==
    resp.status = 500 => resp.data # "error.message" /\ resp.id = req.id

\* the tasks started through sessions other than i
TasksOfOthers(i, ts) == {t \in ts : t.owner # i}

\* C31: an unsubscribe or a re-subscribe issued in one session does not cancel
\* or replace another session's subscription to the same uri: a subscription
\* operation on one session leaves every other session's handles unchanged.
C31_OtherSessionsUntouched ==
    [][Answered /\ req'.known /\ req'.body.kind \in {"subscribe", "unsubscribe"}
        => TasksOfOthers(resp'.invoked, timers') = TasksOfOthers(resp'.invoked, timers)]_vars

\* C36: stopping the HTTP transport after it has been started runs the MCP
\* server's shutdown, which cancels all active resource subscriptions and
\* closes the server, in addition to closing the SSE connections and the
\* HTTP listener.
C36_StopRunsShutdown ==
    pc = "stopped" => /\ sseConnections = {}
                      /\ timers = {} /\ Handles = {}
                      /\ tClosed[1]

\* C32: with several requests outstanding concurrently on the delegating
\* POST /mcp path, every caller receives the result of its own request under
\* its own correlation id, and never the result produced for another request.
C32_OwnResult ==
    \A c \in CallIds : calls[c].why = "message" =>
        /\ calls[c].got = c
        /\ (req = calls[c].r /\ resp.status = 200 => resp.id = calls[c].r.id)

Settled(c) == calls[c].st \in {"resolved", "rejected"}

\* what C38 says of every call whatever settles it: it settles once and for
\* all, a message that settles it is an answer of the server and reached a
\* send whose flag was clear, a timeout settles it only if nothing was handled
\* before, a notification changes no call, and no call stays pending (a call
\* that has settled stays settled, so this is: every pending call settles)
SettlesOnce ==
    /\ [](\A c \in CallIds : calls[c].why = "message" => calls[c].got \in CallIds)
    /\ [][\A c \in CallIds : Settled(c) =>
            /\ calls'[c].st = calls[c].st
            /\ calls'[c].why = calls[c].why
            /\ calls'[c].got = calls[c].got]_vars
    /\ [][\A c \in CallIds : ~Settled(c) /\ calls'[c].st \in {"resolved", "rejected"}
            /\ calls'[c].why \in {"message", "timeout"}
            => ~calls[c].responseHandled /\ calls'[c].responseHandled]_vars
    /\ [][ticksFired' # ticksFired => calls' = calls /\ req' = req /\ resp' = resp]_vars
    /\ <>[](\A c \in CallIds : calls[c].st # "pending")

\* C38: each callServerMethod call settles exactly once: with the first
\* non-notification message the server sends on its transport, or with a
\* 'Request timeout' failure after 10 seconds when none has arrived;
\* resource-updated notifications are broadcast and never settle the call,
\* and a response arriving after the timeout is ignored.
C38_MessageOrTimeout ==
    /\ [](\A c \in CallIds : Settled(c) => calls[c].why \in {"message", "timeout"})
    /\ SettlesOnce

\* C38, amended: each call settles exactly once: with the error of a connect
\* that rejects, with the first non-notification message handed to the send
\* of its transport, or with 'Request timeout' when neither has happened;
\* notifications never settle a call and a late answer is ignored.
C38_ConnectMessageOrTimeout ==
    /\ [](\A c \in CallIds : Settled(c) => calls[c].why \in {"connect", "message", "timeout"})
    /\ [](\A c \in CallIds : calls[c].why = "connect" =>
            calls[c].st = "rejected" /\ calls[c].r.fault /\ ~calls[c].running)
    /\ SettlesOnce

\* a call was rejected by its timer, and the answer that came after it was
\* ignored, while the interval of a subscription had fired
C38_Witness ==
    \E c \in CallIds :
        /\ calls[c].st = "rejected" /\ calls[c].why = "timeout"
        /\ calls[c].late /\ ~calls[c].running
        /\ ticksFired >= 1
        /\ resp.status = 500

\* the router specification in which stop() keeps running: every close() it
\* awaits settles, and the callback of httpServer.close or the 5 s timer runs
SpecRouterLive ==
    /\ SpecRouter
    /\ WF_vars(StopCloseOne(BOOLEAN)) /\ WF_vars(StopClear) /\ WF_vars(Exit)

\* C33: stop() always completes: it settles once the HTTP server has closed,
\* or at the latest when the 5-second grace timer forces the remaining
\* connections closed, even if some connection never closes on its own.
C33_StopCompletes == (pc = "closing") ~> (pc = "exited")

\* stop() has resolved although the stream of a session that was registered
\* while the server drained was attached last and nothing closed it
C33_Witness ==
    /\ pc = "exited"
    /\ req.method = "GET" /\ resp.status = 200 /\ resp.invoked # 0
    /\ Has(req.sid) /\ ~tClosed[sessions[req.sid]]

\* C34: every transport that was ever registered in the session registry has
\* been closed by the time stop() completes, including one registered by an
\* initialize request that is processed while stop() is awaiting the close of
\* another session; no live transport is dropped from the registry without
\* being closed.
C34_AllRegisteredClosed ==
    /\ [](pc = "exited" => \A i \in Insts : tSid[i] # 0 => tClosed[i])
    /\ [][\A s \in Sids : Has(s) /\ sessions'[s] = 0 => tClosed'[sessions[s]]]_vars

\* instance i has completed its initialization
Initialized(i) == tSid[i] # 0

\* instance i is registered, under its own session id
RegisteredOwn(i) == Initialized(i) /\ sessions[tSid[i]] = i

\* the registry has no entry but those of transports under their own id, and
\* an initialize the transport refuses leaves the registry as it was
RegistryOwnEntries ==
    /\ [](\A s \in Sids : Has(s) => tSid[sessions[s]] = s /\ ~tClosed[sessions[s]])
    /\ [][Answered /\ resp'.created # 0 /\ resp'.registered = 0 => sessions' = sessions]_vars
    /\ [][\A s \in Sids : ~Has(s) /\ sessions'[s] # 0 =>
            /\ resp'.created = sessions'[s] /\ resp'.registered = s
            /\ tSid'[sessions'[s]] = s]_vars

C37_CloseErrorIsolated ==
    /\ [][pc = "closing" /\ pc' = "draining" =>
            /\ \A i \in Insts : Initialized(i) => tClosed[i] \/ i \in closeFailed
            /\ \A s \in Sids : ~Has(s)']_vars
    /\ [][\A i \in Insts : i \in closeFailed' \ closeFailed =>
            /\ pc' = "closing"
            /\ sessions' = sessions /\ tClosed' = tClosed]_vars

\* close() of the first session raised, the second session was closed after
\* it, and the registry is empty
C37_Witness ==
    /\ pc = "draining"
    /\ \E i, j \in Insts : /\ i \in closeFailed /\ ~tClosed[i]
                           /\ tClosed[j] /\ tSid[j] > tSid[i]
    /\ \A s \in Sids : ~Has(s)

====
